---- MODULE Spec2Model ----
(***************************************************************************)
(* Milestone finality guard of bor (core/rawdb/milestone.go and the        *)
(* whitelist milestone service that follows it in the same source file).   *)
(*                                                                         *)
(* The guard keeps the last finalized (Number, Hash), a sprint lock        *)
(* (Locked, LockedSprintNumber, LockedSprintHash, LockedMilestoneIDs) and  *)
(* one sync.RWMutex.  Several goroutines call its operations.  A call is   *)
(* modelled in three steps: the call is issued (the goroutine now waits   *)
(* for the mutex), the mutex is acquired, the body runs and the mutex is   *)
(* released.  LockMutex returns with the mutex still held; UnlockMutex     *)
(* releases it.  UnlockSprint takes no mutex at all.  The arguments of a   *)
(* call are read by its body only, so the model draws them when the body   *)
(* runs.                                                                   *)
(*                                                                         *)
(* The embedded finality[T] (fields doExist, Number, Hash, db and the      *)
(* mutex; methods IsValidChain and Process) is not part of the source      *)
(* file; finalityIsValidChain and finalityProcess follow its description.  *)
(***************************************************************************)
EXTENDS Integers, Sequences, FiniteSets, TLC

\* ---------------------------------------------------------------- bounds
MaxHeight == 2
MaxChainLen == 2
MaxPutFailures == 1

\* The goroutines that use the guard.
Threads == {"g1", "g2"}
Heights == 0..MaxHeight
\* Hashes and milestone identifiers are only ever compared for equality, so
\* two of each stand for all of them.  ZeroHash is common.Hash{}, which is
\* the hash of no block.
ZeroHash == "0x00"
BlockHashes == {"0xaa", "0xbb"}
MilestoneIDs == {"id1", "id2"}

\* A header is (Number, Hash).  A candidate chain is a non-empty run of
\* headers at consecutive ascending heights, as block import hands them to
\* the validity check.
Header(n, h) == [Number |-> n, Hash |-> h]

ChainsFrom(start, len) ==
  { [i \in 1..len |-> Header(start + i - 1, hs[i])] : hs \in [1..len -> BlockHashes] }

ChainLens(start) == { l \in 1..MaxChainLen : start + l - 1 <= MaxHeight }

Chains == UNION { UNION { ChainsFrom(s, l) : l \in ChainLens(s) } : s \in Heights }

\* ----------------------------------------------------------------- state
VARIABLES
  doExist, Number, Hash,                      \* finality[T]
  Locked, LockedSprintNumber, LockedSprintHash, LockedMilestoneIDs,
  db,                   \* the key-value store: key -> stored bytes
  mu,                   \* the RWMutex: [w: held exclusively, r: goroutines holding it shared]
  pc,                   \* per goroutine: where it is in its current call
  op,                   \* per goroutine: the operation it is waiting for or running
  ret,                  \* per goroutine: what its last completed call returned
  putBudget,            \* number of db.Put calls that may still fail
  pending,              \* per goroutine: the bytes its UnlockSprint call has yet to put
  roundStart,           \* history: per goroutine in a voting round, the sprint lock
                        \* as its LockMutex found it
  input,                \* the arguments of the function call under study
  output,               \* what that call, or the last read of the store, returned
  written               \* history: per key, what was last written to the store

finalized == <<doExist, Number, Hash>>
sprintLock == <<Locked, LockedSprintNumber, LockedSprintHash, LockedMilestoneIDs>>
guard == <<doExist, Number, Hash, Locked, LockedSprintNumber, LockedSprintHash, LockedMilestoneIDs>>
vars == <<doExist, Number, Hash, Locked, LockedSprintNumber, LockedSprintHash,
          LockedMilestoneIDs, db, mu, pc, op, ret, putBudget, pending, roundStart,
          input, output, written>>
\* the variables the guard's operations do not touch
aux == <<input, output, written>>

\* ----------------------------------------------------- persistence layer
\* The keys of the store.  lastCheckpoint is the key of the checkpoint
\* variant, which has a key of its own.
lastMilestone == "LastMilestone"
lastCheckpoint == "LastCheckpoint"
lockFieldKey == "LockField"
Keys == {lastMilestone, lastCheckpoint, lockFieldKey}

\* the variants T of ReadFinality[T], WriteLastFinality[T] and getKey[T]
Variants == {"Milestone", "Checkpoint"}

\* What the store holds under a key: Absent when the key is not there,
\* otherwise bytes.  Empty is the value of length 0, Garbage is bytes that are
\* not JSON, and the JSON encoding of a struct is kept as the tagged field
\* list the encoder writes.
Absent == <<"absent">>
Empty == <<>>
Garbage == <<"garbage">>

MarshalFinality(block, hash) == <<"json", [Block |-> block, Hash |-> hash]>>

MarshalLockField(val, block, hash, idListMap) ==
  <<"json", [Val |-> val, Block |-> block, Hash |-> hash, IdList |-> idListMap]>>

\* json.Unmarshal into a Finality: the fields the struct has are taken from
\* the object, other fields of the object are ignored
UnmarshalFinality(data) ==
  IF Len(data) = 2 /\ data[1] = "json"
    THEN [err |-> FALSE,
          Block |-> IF "Block" \in DOMAIN data[2] THEN data[2].Block ELSE 0,
          Hash |-> IF "Hash" \in DOMAIN data[2] THEN data[2].Hash ELSE ZeroHash]
    ELSE [err |-> TRUE, Block |-> 0, Hash |-> ZeroHash]

\* json.Unmarshal into a LockField
UnmarshalLockField(data) ==
  IF Len(data) = 2 /\ data[1] = "json"
    THEN [err |-> FALSE,
          Val |-> IF "Val" \in DOMAIN data[2] THEN data[2].Val ELSE FALSE,
          Block |-> IF "Block" \in DOMAIN data[2] THEN data[2].Block ELSE 0,
          Hash |-> IF "Hash" \in DOMAIN data[2] THEN data[2].Hash ELSE ZeroHash,
          IdList |-> IF "IdList" \in DOMAIN data[2] THEN data[2].IdList ELSE {}]
    ELSE [err |-> TRUE, Val |-> FALSE, Block |-> 0, Hash |-> ZeroHash, IdList |-> {}]

\* The errors, by the error value that errors.Is finds in them.  dbNotFound
\* is the error of the store's Get for a key that is not there.
ErrNil == "nil"
dbNotFound == "not found"
ErrEmptyLastFinality == "ErrEmptyLastFinality"
ErrIncorrectFinality == "ErrIncorrectFinality"
ErrIncorrectLockField == "ErrIncorrectLockField"
ErrDBNotResponding == "ErrDBNotResponding"

\* db.Get
dbGet(store, key) ==
  IF store[key] = Absent THEN [data |-> Empty, err |-> dbNotFound]
  ELSE [data |-> store[key], err |-> ErrNil]

\* db.Put either stores the bytes or fails and leaves the store as it was.
PutOutcomes == IF putBudget > 0 THEN {TRUE, FALSE} ELSE {TRUE}

\* the number of failed puts among the puts a step made
Failed(oks) == Cardinality({ i \in DOMAIN oks : ~oks[i] })

\* getKey with one key for both variants
getKeyShared(T) == lastMilestone

\* getKey[T]: the key of the variant
getKey(T) == IF T = "Milestone" THEN lastMilestone ELSE lastCheckpoint

\* ReadFinality[T]: (block, hash, error)
ReadFinality(T, store) ==
  LET g == dbGet(store, getKey(T))
      u == UnmarshalFinality(g.data)
  IN  IF g.err # ErrNil THEN [block |-> 0, hash |-> ZeroHash, err |-> g.err]
      ELSE IF Len(g.data) = 0 THEN [block |-> 0, hash |-> ZeroHash, err |-> ErrEmptyLastFinality]
      ELSE IF u.err THEN [block |-> 0, hash |-> ZeroHash, err |-> ErrIncorrectFinality]
      ELSE [block |-> u.Block, hash |-> u.Hash, err |-> ErrNil]

\* WriteLastFinality[T]: the store after the call
WriteLastFinality(T, store, block, hash, ok) ==
  IF ok THEN [store EXCEPT ![getKey(T)] = MarshalFinality(block, hash)] ELSE store

\* WriteLockField: the store after the call
WriteLockField(store, val, block, hash, idListMap, ok) ==
  IF ok THEN [store EXCEPT ![lockFieldKey] = MarshalLockField(val, block, hash, idListMap)] ELSE store

\* ReadLockField: (val, block, hash, idList, error)
ReadLockField(store) ==
  LET g == dbGet(store, lockFieldKey)
      u == UnmarshalLockField(g.data)
      errResult(e) == [val |-> FALSE, block |-> 0, hash |-> ZeroHash, idList |-> {}, err |-> e]
  IN  IF g.err # ErrNil THEN errResult(g.err)
      ELSE IF Len(g.data) = 0 THEN errResult(ErrIncorrectLockField)
      ELSE IF u.err THEN errResult(ErrIncorrectLockField)
      ELSE [val |-> u.Val, block |-> u.Block, hash |-> u.Hash, idList |-> u.IdList, err |-> ErrNil]

\* ------------------------------------------------------- pure functions
Last(chain) == chain[Len(chain)]

\* the loop of IsReorgAllowed from index i on: the first block at height
\* lockedSprintNumber decides
RECURSIVE scanChain(_, _, _, _)
scanChain(chain, i, lockedSprintNumber, lockedSprintHash) ==
  IF i > Len(chain) THEN TRUE
  ELSE IF chain[i].Number = lockedSprintNumber THEN chain[i].Hash = lockedSprintHash
  ELSE scanChain(chain, i + 1, lockedSprintNumber, lockedSprintHash)

\* the same loop running from the end of the chain to index i
RECURSIVE scanChainBack(_, _, _, _)
scanChainBack(chain, i, lockedSprintNumber, lockedSprintHash) ==
  IF i < 1 THEN TRUE
  ELSE IF chain[i].Number = lockedSprintNumber THEN chain[i].Hash = lockedSprintHash
  ELSE scanChainBack(chain, i - 1, lockedSprintNumber, lockedSprintHash)

\* IsReorgAllowed comparing the chain's end with < instead of <=
IsReorgAllowedLt(chain, lockedSprintNumber, lockedSprintHash) ==
  IF Last(chain).Number < lockedSprintNumber
    THEN FALSE
    ELSE scanChain(chain, 1, lockedSprintNumber, lockedSprintHash)

\* IsReorgAllowed deciding by the last block at the locked height
IsReorgAllowedLastMatch(chain, lockedSprintNumber, lockedSprintHash) ==
  IF Last(chain).Number <= lockedSprintNumber
    THEN FALSE
    ELSE scanChainBack(chain, Len(chain), lockedSprintNumber, lockedSprintHash)

\* milestone.IsReorgAllowed
IsReorgAllowed(chain, lockedSprintNumber, lockedSprintHash) ==
  IF Last(chain).Number <= lockedSprintNumber
    THEN FALSE
    ELSE scanChain(chain, 1, lockedSprintNumber, lockedSprintHash)

\* finality.IsValidChain: reject a chain that ends at or below the finalized
\* height while its block at the finalized height has another hash.
finalityIsValidChain(chain) ==
  ~ ( /\ Last(chain).Number <= Number
      /\ \E i \in 1..Len(chain) : chain[i].Number = Number /\ chain[i].Hash # Hash )

\* milestone.IsValidChain: the value returned for the guard's current state;
\* flagsMilestone is the value of flags.Milestone the call reads
IsValidChain(flagsMilestone, chain) ==
  IF ~flagsMilestone THEN TRUE
  ELSE IF ~finalityIsValidChain(chain) THEN FALSE
  ELSE IF Locked /\ ~IsReorgAllowed(chain, LockedSprintNumber, LockedSprintHash) THEN FALSE
  ELSE TRUE

\* ---------------------------------------------------------- return values
NoRet == [kind |-> "none", b |-> FALSE, ids |-> {}]
RetBool(b) == [kind |-> "bool", b |-> b, ids |-> {}]
RetIds(s) == [kind |-> "ids", b |-> FALSE, ids |-> s]

\* the sprint lock as a value, and the value of roundStart outside a round
SprintLock(locked, number, hash, ids) == <<locked, number, hash, ids>>
NoRound == <<>>
\* the value of pending when no UnlockSprint call has a put outstanding
NoPut == <<>>
\* input and output when no call is under study, and the history of a key
\* that was never written
NoInput == [kind |-> "none"]
NoOutput == [kind |-> "none"]
Never == <<"never">>

\* ----------------------------------------------------------------- Init
\* the zero-valued guard on an empty store, no call under way
InitGuard ==
  /\ doExist = FALSE /\ Number = 0 /\ Hash = ZeroHash
  /\ Locked = FALSE /\ LockedSprintNumber = 0 /\ LockedSprintHash = ZeroHash
  /\ LockedMilestoneIDs = {}
  /\ db = [k \in Keys |-> Absent]
  /\ mu = [w |-> FALSE, r |-> {}]
  /\ pc = [t \in Threads |-> "idle"]
  /\ op = [t \in Threads |-> "none"]
  /\ ret = [t \in Threads |-> NoRet]
  /\ roundStart = [t \in Threads |-> NoRound]
  /\ pending = [t \in Threads |-> NoPut]

InitAux ==
  /\ input = NoInput /\ output = NoOutput
  /\ written = [k \in Variants \cup {"LockField"} |-> Never]

\* a store whose writes succeed
Init == InitGuard /\ InitAux /\ putBudget = 0

\* ------------------------------------------------------------ the mutex
\* Lock that does not wait for the exclusive holder
CanLockShared == mu.r = {}
\* RLock that does not wait for the exclusive holder
CanRLockAlways == TRUE

\* sync.RWMutex: Lock waits for the exclusive holder and for all readers,
\* RLock waits for the exclusive holder.  (That a pending Lock also holds
\* back new readers only orders acquisitions and is left out.)
CanLock == ~mu.w /\ mu.r = {}
CanRLock == ~mu.w

ReadOps == {"IsValidChain", "GetMilestoneIDsList"}
WriteOps == {"Process", "LockMutex", "RemoveMilestoneID"}

\* A goroutine calls an operation that takes the mutex and now waits for it.
\* A goroutine that still holds the mutex from LockMutex and calls another
\* locking operation waits for itself: sync.RWMutex is not reentrant.
Invoke(t, o) ==
  /\ pc[t] \in {"idle", "voting", "rejected"} /\ pending[t] = NoPut
  /\ pc' = [pc EXCEPT ![t] = "wait"]
  /\ op' = [op EXCEPT ![t] = o]
  /\ ret' = [ret EXCEPT ![t] = NoRet]
  /\ roundStart' = [roundStart EXCEPT ![t] = NoRound]
  /\ UNCHANGED <<guard, db, mu, putBudget, pending, aux>>

\* m.finality.Lock() / m.finality.RLock() returns
Acquire(t) ==
  /\ pc[t] = "wait"
  /\ IF op[t] \in ReadOps
       THEN CanRLock /\ mu' = [mu EXCEPT !.r = @ \cup {t}]
       ELSE CanLock /\ mu' = [mu EXCEPT !.w = TRUE]
  /\ pc' = [pc EXCEPT ![t] = "held"]
  /\ UNCHANGED <<guard, db, op, ret, putBudget, pending, roundStart, aux>>

\* the call returns; its RUnlock / Unlock runs
Return(t, r) ==
  /\ pc' = [pc EXCEPT ![t] = "idle"]
  /\ op' = [op EXCEPT ![t] = "none"]
  /\ ret' = [ret EXCEPT ![t] = r]
  /\ mu' = IF op[t] \in ReadOps THEN [mu EXCEPT !.r = @ \ {t}] ELSE [mu EXCEPT !.w = FALSE]
  /\ UNCHANGED <<pending, roundStart, aux>>

\* UnlockSprint that also leaves a lock at exactly endBlockNum alone
UnlockSprintLeq(store, endBlockNum, ok) ==
  IF endBlockNum <= LockedSprintNumber
    THEN [Locked |-> Locked, IDs |-> LockedMilestoneIDs, db |-> store, puts |-> <<>>]
    ELSE [Locked |-> FALSE, IDs |-> {},
          db |-> WriteLockField(store, FALSE, LockedSprintNumber, LockedSprintHash, {}, ok),
          puts |-> <<ok>>]

\* UnlockSprint without purgeMilestoneIDsList
UnlockSprintKeepIDs(store, endBlockNum, ok) ==
  IF endBlockNum < LockedSprintNumber
    THEN [Locked |-> Locked, IDs |-> LockedMilestoneIDs, db |-> store, puts |-> <<>>]
    ELSE [Locked |-> FALSE, IDs |-> LockedMilestoneIDs,
          db |-> WriteLockField(store, FALSE, LockedSprintNumber, LockedSprintHash, LockedMilestoneIDs, ok),
          puts |-> <<ok>>]

\* UnlockSprint without the early return for an older end block
UnlockSprintAlways(store, endBlockNum, ok) ==
  [Locked |-> FALSE, IDs |-> {},
   db |-> WriteLockField(store, FALSE, LockedSprintNumber, LockedSprintHash, {}, ok),
   puts |-> <<ok>>]

\* milestone.UnlockSprint: the sprint lock and the store after the call
UnlockSprint(store, endBlockNum, ok) ==
  IF endBlockNum < LockedSprintNumber
    THEN [Locked |-> Locked, IDs |-> LockedMilestoneIDs, db |-> store, puts |-> <<>>]
    ELSE [Locked |-> FALSE, IDs |-> {},
          db |-> WriteLockField(store, FALSE, LockedSprintNumber, LockedSprintHash, {}, ok),
          puts |-> <<ok>>]

\* finality.Process: set the record, mark it existing, persist it
finalityProcess(store, block, hash, ok) ==
  [doExist |-> TRUE, Number |-> block, Hash |-> hash,
   db |-> WriteLastFinality("Milestone", store, block, hash, ok)]

\* milestone.IsValidChain, under the shared lock
IsValidChainOp(t) ==
  /\ pc[t] = "held" /\ op[t] = "IsValidChain"
  /\ \E r \in { IsValidChain(f, c) : f \in BOOLEAN, c \in Chains } : Return(t, RetBool(r))
  /\ UNCHANGED <<guard, db, putBudget>>

\* milestone.GetMilestoneIDsList, under the shared lock
GetMilestoneIDsList(t) ==
  /\ pc[t] = "held" /\ op[t] = "GetMilestoneIDsList"
  /\ Return(t, RetIds(LockedMilestoneIDs))
  /\ UNCHANGED <<guard, db, putBudget>>

\* Process without the test for an equal height
ProcessAnyHeight(t, block, hash) ==
  /\ pc[t] = "held" /\ op[t] = "Process"
  /\ \E ok1 \in PutOutcomes, ok2 \in PutOutcomes :
       LET f == finalityProcess(db, block, hash, ok1)
           u == UnlockSprint(f.db, block, ok2)
           failed == Failed(<<ok1>> \o u.puts)
       IN  /\ failed <= putBudget
           /\ doExist' = f.doExist /\ Number' = f.Number /\ Hash' = f.Hash
           /\ Locked' = u.Locked /\ LockedMilestoneIDs' = u.IDs
           /\ db' = u.db
           /\ putBudget' = putBudget - failed
           /\ UNCHANGED <<LockedSprintNumber, LockedSprintHash>>
  /\ Return(t, NoRet)

\* Process without the call of UnlockSprint
ProcessNoUnlockSprint(t, block, hash) ==
  /\ pc[t] = "held" /\ op[t] = "Process"
  /\ IF Number = block
       THEN UNCHANGED <<guard, db, putBudget>>
       ELSE \E ok1 \in PutOutcomes :
              LET f == finalityProcess(db, block, hash, ok1)
              IN  /\ doExist' = f.doExist /\ Number' = f.Number /\ Hash' = f.Hash
                  /\ db' = f.db
                  /\ putBudget' = putBudget - Failed(<<ok1>>)
                  /\ UNCHANGED sprintLock
  /\ Return(t, NoRet)

\* milestone.Process, under the exclusive lock
Process(t, block, hash) ==
  /\ pc[t] = "held" /\ op[t] = "Process"
  /\ IF Number = block
       THEN UNCHANGED <<guard, db, putBudget>>
       ELSE \E ok1 \in PutOutcomes, ok2 \in PutOutcomes :
              LET f == finalityProcess(db, block, hash, ok1)
                  u == UnlockSprint(f.db, block, ok2)
                  failed == Failed(<<ok1>> \o u.puts)
              IN  /\ failed <= putBudget
                  /\ doExist' = f.doExist /\ Number' = f.Number /\ Hash' = f.Hash
                  /\ Locked' = u.Locked /\ LockedMilestoneIDs' = u.IDs
                  /\ db' = u.db
                  /\ putBudget' = putBudget - failed
                  /\ UNCHANGED <<LockedSprintNumber, LockedSprintHash>>
  /\ Return(t, NoRet)

\* LockMutex's first test with < instead of <=
IsStaleLt(endBlockNum) == doExist /\ endBlockNum < Number

\* LockMutex's first test: the end block is not above the finalized height
IsStale(endBlockNum) == doExist /\ endBlockNum <= Number

\* LockMutex without the rejection of a boundary older than the locked one
LockMutexNoOlderCheck(t, endBlockNum) ==
  /\ pc[t] = "held" /\ op[t] = "LockMutex"
  /\ IF IsStale(endBlockNum)
       THEN /\ pc' = [pc EXCEPT ![t] = "rejected"]
            /\ ret' = [ret EXCEPT ![t] = RetBool(FALSE)]
            /\ UNCHANGED <<guard, db, putBudget>>
     ELSE IF Locked /\ endBlockNum # LockedSprintNumber
       THEN \E ok \in PutOutcomes :
              LET u == UnlockSprint(db, LockedSprintNumber, ok) IN
              /\ Locked' = FALSE
              /\ LockedMilestoneIDs' = u.IDs
              /\ db' = u.db
              /\ putBudget' = putBudget - Failed(u.puts)
              /\ LockedSprintNumber' = endBlockNum
              /\ pc' = [pc EXCEPT ![t] = "voting"]
              /\ ret' = [ret EXCEPT ![t] = RetBool(TRUE)]
              /\ UNCHANGED <<doExist, Number, Hash, LockedSprintHash>>
     ELSE /\ LockedSprintNumber' = endBlockNum
          /\ pc' = [pc EXCEPT ![t] = "voting"]
          /\ ret' = [ret EXCEPT ![t] = RetBool(TRUE)]
          /\ UNCHANGED <<doExist, Number, Hash, Locked, LockedSprintHash, LockedMilestoneIDs, db, putBudget>>
  /\ roundStart' = [roundStart EXCEPT ![t] =
                      SprintLock(Locked, LockedSprintNumber, LockedSprintHash, LockedMilestoneIDs)]
  /\ UNCHANGED <<mu, op, pending, aux>>

\* milestone.LockMutex: the body after m.finality.Lock(); every path returns
\* with the mutex held.
LockMutex(t, endBlockNum) ==
  /\ pc[t] = "held" /\ op[t] = "LockMutex"
  /\ IF IsStale(endBlockNum)
       THEN /\ pc' = [pc EXCEPT ![t] = "rejected"]
            /\ ret' = [ret EXCEPT ![t] = RetBool(FALSE)]
            /\ UNCHANGED <<guard, db, putBudget>>
     ELSE IF Locked /\ endBlockNum # LockedSprintNumber
       THEN IF endBlockNum < LockedSprintNumber
              THEN /\ pc' = [pc EXCEPT ![t] = "rejected"]
                   /\ ret' = [ret EXCEPT ![t] = RetBool(FALSE)]
                   /\ UNCHANGED <<guard, db, putBudget>>
              ELSE \E ok \in PutOutcomes :
                     LET u == UnlockSprint(db, LockedSprintNumber, ok) IN
                     /\ Locked' = FALSE
                     /\ LockedMilestoneIDs' = u.IDs
                     /\ db' = u.db
                     /\ putBudget' = putBudget - Failed(u.puts)
                     /\ LockedSprintNumber' = endBlockNum
                     /\ pc' = [pc EXCEPT ![t] = "voting"]
                     /\ ret' = [ret EXCEPT ![t] = RetBool(TRUE)]
                     /\ UNCHANGED <<doExist, Number, Hash, LockedSprintHash>>
     ELSE /\ LockedSprintNumber' = endBlockNum
          /\ pc' = [pc EXCEPT ![t] = "voting"]
          /\ ret' = [ret EXCEPT ![t] = RetBool(TRUE)]
          /\ UNCHANGED <<doExist, Number, Hash, Locked, LockedSprintHash, LockedMilestoneIDs, db, putBudget>>
  /\ roundStart' = [roundStart EXCEPT ![t] =
                      SprintLock(Locked, LockedSprintNumber, LockedSprintHash, LockedMilestoneIDs)]
  /\ UNCHANGED <<mu, op, pending, aux>>

\* UnlockMutex that assigns doLock to Locked instead of or-ing it in
UnlockMutexAssign(t, doLock, milestoneId, endBlockHash) ==
  /\ pc[t] \in {"voting", "rejected"} /\ pending[t] = NoPut
  /\ \E ok \in PutOutcomes :
       LET locked == doLock
           h == IF doLock THEN endBlockHash ELSE LockedSprintHash
           ids == IF doLock THEN LockedMilestoneIDs \cup {milestoneId} ELSE LockedMilestoneIDs
       IN  /\ Locked' = locked
           /\ LockedSprintHash' = h
           /\ LockedMilestoneIDs' = ids
           /\ db' = WriteLockField(db, locked, LockedSprintNumber, h, ids, ok)
           /\ putBudget' = putBudget - Failed(<<ok>>)
  /\ op' = [op EXCEPT ![t] = "none"]
  /\ ret' = [ret EXCEPT ![t] = NoRet]
  /\ pc' = [pc EXCEPT ![t] = "idle"]
  /\ mu' = [mu EXCEPT !.w = FALSE]
  /\ roundStart' = [roundStart EXCEPT ![t] = NoRound]
  /\ UNCHANGED <<doExist, Number, Hash, LockedSprintNumber, pending, aux>>

\* UnlockMutex that returns on a failed write before it unlocks
UnlockMutexReturnsOnError(t, doLock, milestoneId, endBlockHash) ==
  /\ pc[t] \in {"voting", "rejected"} /\ pending[t] = NoPut
  /\ \E ok \in PutOutcomes :
       LET locked == Locked \/ doLock
           h == IF doLock THEN endBlockHash ELSE LockedSprintHash
           ids == IF doLock THEN LockedMilestoneIDs \cup {milestoneId} ELSE LockedMilestoneIDs
       IN  /\ Locked' = locked
           /\ LockedSprintHash' = h
           /\ LockedMilestoneIDs' = ids
           /\ db' = WriteLockField(db, locked, LockedSprintNumber, h, ids, ok)
           /\ putBudget' = putBudget - Failed(<<ok>>)
           /\ mu' = IF ok THEN [mu EXCEPT !.w = FALSE] ELSE mu
  /\ op' = [op EXCEPT ![t] = "none"]
  /\ ret' = [ret EXCEPT ![t] = NoRet]
  /\ pc' = [pc EXCEPT ![t] = "idle"]
  /\ roundStart' = [roundStart EXCEPT ![t] = NoRound]
  /\ UNCHANGED <<doExist, Number, Hash, LockedSprintNumber, pending, aux>>

\* milestone.UnlockMutex, called by the goroutine that LockMutex returned to
UnlockMutex(t, doLock, milestoneId, endBlockHash) ==
  /\ pc[t] \in {"voting", "rejected"} /\ pending[t] = NoPut
  /\ \E ok \in PutOutcomes :
       LET locked == Locked \/ doLock
           h == IF doLock THEN endBlockHash ELSE LockedSprintHash
           ids == IF doLock THEN LockedMilestoneIDs \cup {milestoneId} ELSE LockedMilestoneIDs
       IN  /\ Locked' = locked
           /\ LockedSprintHash' = h
           /\ LockedMilestoneIDs' = ids
           /\ db' = WriteLockField(db, locked, LockedSprintNumber, h, ids, ok)
           /\ putBudget' = putBudget - Failed(<<ok>>)
  /\ op' = [op EXCEPT ![t] = "none"]
  /\ ret' = [ret EXCEPT ![t] = NoRet]
  /\ pc' = [pc EXCEPT ![t] = "idle"]
  /\ mu' = [mu EXCEPT !.w = FALSE]
  /\ roundStart' = [roundStart EXCEPT ![t] = NoRound]
  /\ UNCHANGED <<doExist, Number, Hash, LockedSprintNumber, pending, aux>>

\* RemoveMilestoneID that clears Locked whatever identifiers remain
RemoveMilestoneIDUnlock(t, milestoneId) ==
  /\ pc[t] = "held" /\ op[t] = "RemoveMilestoneID"
  /\ \E ok \in PutOutcomes :
       LET ids == LockedMilestoneIDs \ {milestoneId}
       IN  /\ LockedMilestoneIDs' = ids
           /\ Locked' = FALSE
           /\ db' = WriteLockField(db, FALSE, LockedSprintNumber, LockedSprintHash, ids, ok)
           /\ putBudget' = putBudget - Failed(<<ok>>)
  /\ Return(t, NoRet)
  /\ UNCHANGED <<doExist, Number, Hash, LockedSprintNumber, LockedSprintHash>>

\* RemoveMilestoneID without the test for an empty identifier set
RemoveMilestoneIDKeepLocked(t, milestoneId) ==
  /\ pc[t] = "held" /\ op[t] = "RemoveMilestoneID"
  /\ \E ok \in PutOutcomes :
       LET ids == LockedMilestoneIDs \ {milestoneId}
       IN  /\ LockedMilestoneIDs' = ids
           /\ Locked' = Locked
           /\ db' = WriteLockField(db, Locked, LockedSprintNumber, LockedSprintHash, ids, ok)
           /\ putBudget' = putBudget - Failed(<<ok>>)
  /\ Return(t, NoRet)
  /\ UNCHANGED <<doExist, Number, Hash, LockedSprintNumber, LockedSprintHash>>

\* milestone.RemoveMilestoneID, under the exclusive lock
RemoveMilestoneID(t, milestoneId) ==
  /\ pc[t] = "held" /\ op[t] = "RemoveMilestoneID"
  /\ \E ok \in PutOutcomes :
       LET ids == LockedMilestoneIDs \ {milestoneId}
           locked == IF ids = {} THEN FALSE ELSE Locked
       IN  /\ LockedMilestoneIDs' = ids
           /\ Locked' = locked
           /\ db' = WriteLockField(db, locked, LockedSprintNumber, LockedSprintHash, ids, ok)
           /\ putBudget' = putBudget - Failed(<<ok>>)
  /\ Return(t, NoRet)
  /\ UNCHANGED <<doExist, Number, Hash, LockedSprintNumber, LockedSprintHash>>

\* milestone.UnlockSprint called directly through milestoneService: it takes
\* no mutex, so it runs whatever the mutex state is.
UnlockSprintCall(t, endBlockNum) ==
  /\ pc[t] \in {"idle", "voting", "rejected"} /\ pending[t] = NoPut
  /\ \E ok \in PutOutcomes :
       LET u == UnlockSprint(db, endBlockNum, ok) IN
       /\ Locked' = u.Locked /\ LockedMilestoneIDs' = u.IDs /\ db' = u.db
       /\ putBudget' = putBudget - Failed(u.puts)
  /\ UNCHANGED <<doExist, Number, Hash, LockedSprintNumber, LockedSprintHash, mu, pc, op, ret,
                 pending, roundStart, aux>>

\* The same call in two steps.  Nothing orders the store write of a direct
\* UnlockSprint call with the steps of the other goroutines: first its test
\* and assignments run and WriteLockField encodes the record (lines 297-304,
\* 116-125), ...
UnlockSprintBegin(t, endBlockNum) ==
  /\ pc[t] \in {"idle", "voting", "rejected"} /\ pending[t] = NoPut
  /\ LET u == UnlockSprint(db, endBlockNum, TRUE) IN
       /\ Locked' = u.Locked /\ LockedMilestoneIDs' = u.IDs
       /\ pending' = [pending EXCEPT ![t] = IF u.puts = <<>> THEN NoPut ELSE u.db.LockField]
  /\ UNCHANGED <<doExist, Number, Hash, LockedSprintNumber, LockedSprintHash, db, mu, pc, op, ret,
                 putBudget, roundStart, aux>>

\* ... then db.Put stores the encoded bytes (line 132) and the call returns.
UnlockSprintPut(t) ==
  /\ pending[t] # NoPut
  /\ \E ok \in PutOutcomes :
       /\ db' = IF ok THEN [db EXCEPT !.LockField = pending[t]] ELSE db
       /\ putBudget' = putBudget - Failed(<<ok>>)
  /\ pending' = [pending EXCEPT ![t] = NoPut]
  /\ UNCHANGED <<guard, mu, pc, op, ret, roundStart, aux>>

\* the operations that go through the mutex, called by the goroutines of G
LockedNext(G) ==
  \/ \E t \in G, o \in ReadOps \cup WriteOps : Invoke(t, o)
  \/ \E t \in G : Acquire(t)
  \/ \E t \in G : IsValidChainOp(t)
  \/ \E t \in G : GetMilestoneIDsList(t)
  \/ \E t \in G, b \in Heights, h \in BlockHashes : Process(t, b, h)
  \/ \E t \in G, e \in Heights : LockMutex(t, e)
  \/ \E t \in G, doLock \in BOOLEAN, i \in MilestoneIDs, h \in BlockHashes : UnlockMutex(t, doLock, i, h)
  \/ \E t \in G, i \in MilestoneIDs : RemoveMilestoneID(t, i)

Next ==
  \/ LockedNext(Threads)
  \/ \E t \in Threads, e \in Heights : UnlockSprintCall(t, e)

Spec == Init /\ [][Next]_vars

\* The guard on a store of which up to MaxPutFailures puts fail.  What a
\* call does when its write fails does not depend on the other goroutines,
\* so one goroutine makes the calls, in every order.
InitFaulty == InitGuard /\ InitAux /\ putBudget = MaxPutFailures

Solo == {"g1"}

NextFaulty ==
  \/ LockedNext(Solo)
  \/ \E t \in Solo, e \in Heights : UnlockSprintCall(t, e)

SpecFaulty == InitFaulty /\ [][NextFaulty]_vars

\* the guard with the two steps of a direct UnlockSprint call apart
NextUnsync ==
  \/ LockedNext(Threads)
  \/ \E t \in Threads, e \in Heights : UnlockSprintBegin(t, e)
  \/ \E t \in Threads : UnlockSprintPut(t)

SpecUnsync == Init /\ [][NextUnsync]_vars

\* ------------------------------------------------ IsReorgAllowed by itself
\* IsReorgAllowed takes any non-empty slice of headers: the heights need not
\* ascend and a height may occur twice.
ReorgChainLen == MaxChainLen + 1
Headers == { Header(n, h) : n \in Heights, h \in BlockHashes }
AnyChains == UNION { [1..l -> Headers] : l \in 1..ReorgChainLen }

InitReorg ==
  /\ InitGuard /\ putBudget = 0
  /\ input \in { [kind |-> "IsReorgAllowed", chain |-> c, n |-> n, h |-> h] :
                    c \in AnyChains, n \in Heights, h \in BlockHashes }
  /\ output = NoOutput
  /\ written = [k \in Variants \cup {"LockField"} |-> Never]

\* the call of IsReorgAllowed on the arguments drawn
IsReorgAllowedCall ==
  /\ input.kind = "IsReorgAllowed" /\ output = NoOutput
  /\ output' = [kind |-> "IsReorgAllowed", b |-> IsReorgAllowed(input.chain, input.n, input.h)]
  /\ UNCHANGED <<guard, db, mu, pc, op, ret, putBudget, pending, roundStart, input, written>>

NextReorg == IsReorgAllowedCall

SpecReorg == InitReorg /\ [][NextReorg]_vars

\* ------------------------------------------- the persistence layer by itself
\* The functions of the persistence layer called on a store that starts
\* empty.  written records, per variant and for the lock field, the
\* arguments of the last write that succeeded; every write forgets the
\* result of the read before it.
InitStore ==
  /\ InitGuard /\ InitAux /\ putBudget = 0

\* the guard's fields and goroutines, which the persistence layer does not use
idleGuard == <<guard, mu, pc, op, ret, pending, roundStart, input>>

WriteResult(ok) == [kind |-> "write", err |-> IF ok THEN ErrNil ELSE ErrDBNotResponding]

WriteLastFinalityCall(T, block, hash) ==
  /\ \E ok \in PutOutcomes :
       /\ db' = WriteLastFinality(T, db, block, hash, ok)
       /\ putBudget' = putBudget - Failed(<<ok>>)
       /\ output' = WriteResult(ok)
       /\ written' = IF ok THEN [written EXCEPT ![T] = <<"finality", block, hash>>] ELSE written
  /\ UNCHANGED idleGuard

WriteLockFieldCall(val, block, hash, idListMap) ==
  /\ \E ok \in PutOutcomes :
       /\ db' = WriteLockField(db, val, block, hash, idListMap, ok)
       /\ putBudget' = putBudget - Failed(<<ok>>)
       /\ output' = WriteResult(ok)
       /\ written' = IF ok THEN [written EXCEPT !["LockField"] = <<"lockfield", val, block, hash, idListMap>>]
                     ELSE written
  /\ UNCHANGED idleGuard

\* Something else than the functions above leaves an empty value or bytes
\* that are not JSON under a key: the cases that the tests of lines 56, 60,
\* 150 and 154 are there for.
PutForeign(T, bytes) ==
  /\ db' = [db EXCEPT ![IF T = "LockField" THEN lockFieldKey ELSE getKey(T)] = bytes]
  /\ written' = [written EXCEPT ![T] = <<"foreign">>]
  /\ output' = NoOutput
  /\ UNCHANGED <<idleGuard, putBudget>>

ReadFinalityCall(T) ==
  /\ output' = [kind |-> "ReadFinality", T |-> T, ret |-> ReadFinality(T, db)]
  /\ UNCHANGED <<idleGuard, db, putBudget, written>>

ReadLockFieldCall ==
  /\ output' = [kind |-> "ReadLockField", ret |-> ReadLockField(db)]
  /\ UNCHANGED <<idleGuard, db, putBudget, written>>

NextStore ==
  \/ \E T \in Variants, block \in Heights, hash \in BlockHashes : WriteLastFinalityCall(T, block, hash)
  \/ \E val \in BOOLEAN, block \in Heights, hash \in BlockHashes, ids \in SUBSET MilestoneIDs :
       WriteLockFieldCall(val, block, hash, ids)
  \/ \E T \in Variants \cup {"LockField"}, bytes \in {Empty, Garbage} : PutForeign(T, bytes)
  \/ \E T \in Variants : ReadFinalityCall(T)
  \/ ReadLockFieldCall

SpecStore == InitStore /\ [][NextStore]_vars

\* ================================================================ claims
\* the chain has a block at height n whose hash is not h
HasOtherAt(chain, n, h) == \E i \in 1..Len(chain) : chain[i].Number = n /\ chain[i].Hash # h
\* the chain has the block (n, h)
HasBlock(chain, n, h) == \E i \in 1..Len(chain) : chain[i].Number = n /\ chain[i].Hash = h

\* C1: with the milestone flag on and the sprint locked at (n, H),
\* IsValidChain returns false for every chain whose last block is at or below
\* n, and for every chain that has a block at height n with a hash other
\* than H.
C1_LockedBoundaryRejects ==
  Locked =>
    \A c \in Chains :
      ( \/ Last(c).Number <= LockedSprintNumber
        \/ HasOtherAt(c, LockedSprintNumber, LockedSprintHash) )
      => ~IsValidChain(TRUE, c)

\* A goroutine is inside IsValidChain, holding the mutex shared, while a
\* sprint is locked and the lock alone rejects some chain.
C1_Witness ==
  /\ Locked
  /\ \E t \in Threads : pc[t] = "held" /\ op[t] = "IsValidChain"
  /\ \E c \in Chains : finalityIsValidChain(c) /\ ~IsValidChain(TRUE, c)

\* the chain ends at or below height n
EndsAtOrBelow(chain, n) == Last(chain).Number <= n

\* C2 as stated: when Process(h2, b) runs on a guard finalized at h1 < h2,
\* then afterwards, with the flag on, IsValidChain rejects every chain ending
\* at or below h2 whose block at h2 has another hash than b, and accepts
\* every chain ending at or below h2 whose block at h2 has hash b.
C2_Original ==
  [][\A t \in Threads, h2 \in Heights, b \in BlockHashes :
       (Process(t, h2, b) /\ Number < h2) =>
         \A c \in Chains :
           EndsAtOrBelow(c, h2) =>
             /\ HasOtherAt(c, h2, b) => ~IsValidChain(TRUE, c)'
             /\ HasBlock(c, h2, b) => IsValidChain(TRUE, c)']_vars

\* C2 amended: after such a Process(h2, b), IsValidChain rejects every chain
\* ending at or below h2 whose block at h2 has another hash than b; a sprint
\* lock that is still held is one above h2; the chains ending at or below h2
\* whose block at h2 has hash b are accepted when no sprint lock is held, and
\* rejected when one is.
C2_ProcessThenValidity ==
  [][\A t \in Threads, h2 \in Heights, b \in BlockHashes :
       (Process(t, h2, b) /\ Number < h2) =>
         /\ Locked' => LockedSprintNumber' > h2
         /\ \A c \in Chains :
              EndsAtOrBelow(c, h2) =>
                /\ HasOtherAt(c, h2, b) => ~IsValidChain(TRUE, c)'
                /\ HasBlock(c, h2, b) => (IsValidChain(TRUE, c)' <=> ~Locked')]_vars

\* Process has advanced the finalized record above 0 and persisted it, no
\* sprint lock is held, and IsValidChain accepts one chain ending at the
\* finalized height and rejects another.
C2_Witness ==
  /\ doExist /\ Number > 0 /\ ~Locked
  /\ db.LastMilestone = MarshalFinality(Number, Hash)
  /\ \E c \in Chains : EndsAtOrBelow(c, Number) /\ HasBlock(c, Number, Hash) /\ IsValidChain(TRUE, c)
  /\ \E c \in Chains : EndsAtOrBelow(c, Number) /\ HasOtherAt(c, Number, Hash) /\ ~IsValidChain(TRUE, c)

\* the goroutines that hold the mutex from LockMutex
InRound == { t \in Threads : pc[t] \in {"voting", "rejected"} }
\* the goroutines inside an operation with the mutex taken
Inside == { t \in Threads : pc[t] = "held" }

\* C3: while a goroutine is between its LockMutex and its UnlockMutex, the
\* mutex is held exclusively and no other goroutine is inside Process,
\* IsValidChain, RemoveMilestoneID, GetMilestoneIDsList or LockMutex, nor in
\* a round of its own.
C3_RoundExcludesOthers ==
  \A t \in InRound :
    /\ mu.w /\ mu.r = {}
    /\ Inside = {}
    /\ InRound = {t}

\* A goroutine is in its round and the other one has called an operation
\* and waits for the mutex.
C3_Witness ==
  \E t \in Threads : pc[t] = "voting" /\ \E u \in Threads \ {t} : pc[u] = "wait"

\* the mutex is held from a LockMutex, not by a running Process,
\* RemoveMilestoneID or LockMutex body
HandOffHeld == mu.w /\ \A t \in Threads : ~(pc[t] = "held" /\ op[t] \in WriteOps)

\* the step is an UnlockMutex call
UnlockMutexStep ==
  \E t \in Threads, doLock \in BOOLEAN, i \in MilestoneIDs, h \in BlockHashes :
    UnlockMutex(t, doLock, i, h)

\* C4: once LockMutex has returned, every step that is not an UnlockMutex
\* leaves the mutex held from that LockMutex and leaves every goroutine that
\* waits for the mutex (a second LockMutex, from the same or another
\* goroutine, or any other locking operation) waiting.
C4_NoUnlockMutexStalls ==
  [][(HandOffHeld /\ ~UnlockMutexStep) =>
       /\ HandOffHeld'
       /\ \A t \in Threads : pc[t] = "wait" => pc'[t] = "wait"]_vars

\* LockMutex has returned, its caller has called LockMutex again without
\* UnlockMutex, and every goroutine now waits for the mutex.
C4_Witness ==
  /\ HandOffHeld
  /\ \A t \in Threads : pc[t] = "wait"
  /\ \E t \in Threads : op[t] = "LockMutex"

\* C5 as stated: after a LockMutex that returned false the exclusive lock is
\* free again, so a caller that calls UnlockMutex only after a LockMutex
\* that returned true keeps the guard live.
C5_RejectedLockMutexReleases ==
  \A t \in Threads : pc[t] = "rejected" => ~mu.w

\* C6: LockMutex(e) on a guard whose finalized record exists with height >= e
\* returns false and changes neither Locked, LockedSprintNumber,
\* LockedSprintHash, the identifier set nor the finalized record.
C6_StaleRejected ==
  [][\A t \in Threads, e \in Heights :
       (LockMutex(t, e) /\ doExist /\ Number >= e) =>
         /\ pc'[t] = "rejected" /\ ret'[t] = RetBool(FALSE)
         /\ UNCHANGED <<sprintLock, finalized>>]_vars

\* LockMutex has returned false on a guard finalized at the greatest height,
\* where every end block is stale.
C6_Witness ==
  \E t \in Threads :
    pc[t] = "rejected" /\ ret[t] = RetBool(FALSE) /\ doExist /\ Number = MaxHeight

\* C7: LockMutex(e) that is not rejected as stale, with boundary n locked:
\* for e > n it returns true with Locked = false, the identifier set empty
\* and LockedSprintNumber = e; for e < n it returns false and changes nothing
\* of the sprint lock.  Whenever LockMutex(e) returns true,
\* LockedSprintNumber = e afterwards.
C7_LockMutexBoundary ==
  [][\A t \in Threads, e \in Heights :
       LockMutex(t, e) =>
         /\ (Locked /\ ~(doExist /\ e <= Number) /\ e > LockedSprintNumber) =>
              /\ pc'[t] = "voting" /\ ret'[t] = RetBool(TRUE)
              /\ ~Locked' /\ LockedMilestoneIDs' = {} /\ LockedSprintNumber' = e
              /\ LockedSprintHash' = LockedSprintHash
         /\ (Locked /\ ~(doExist /\ e <= Number) /\ e < LockedSprintNumber) =>
              /\ pc'[t] = "rejected" /\ ret'[t] = RetBool(FALSE)
              /\ UNCHANGED sprintLock
         /\ ret'[t] = RetBool(TRUE) => LockedSprintNumber' = e]_vars

\* LockMutex has returned true for a boundary above the one it found locked:
\* the round started from a locked sprint lock, which is now cleared.
C7_Witness ==
  \E t \in Threads :
    /\ pc[t] = "voting" /\ ret[t] = RetBool(TRUE)
    /\ roundStart[t] # NoRound /\ roundStart[t][1] /\ roundStart[t][2] < LockedSprintNumber
    /\ ~Locked /\ LockedMilestoneIDs = {}

\* C8 as stated: a round LockMutex(e) ... UnlockMutex(false, id, h) that found
\* the sprint locked ends with the sprint lock as the round found it.
C8_Original ==
  [][\A t \in Threads, i \in MilestoneIDs, h \in BlockHashes :
       (UnlockMutex(t, FALSE, i, h) /\ roundStart[t][1]) =>
         SprintLock(Locked', LockedSprintNumber', LockedSprintHash', LockedMilestoneIDs') = roundStart[t]]_vars

\* C8 amended: with boundary n locked, LockMutex(e) for e <= n (accepted for
\* e = n, rejected otherwise) changes nothing of the sprint lock, LockMutex(e)
\* accepted for e > n un-sets the lock, and UnlockMutex(false, id, h) changes
\* nothing of the sprint lock.
C8_NonConfirmingRound ==
  [][/\ \A t \in Threads, e \in Heights :
          (LockMutex(t, e) /\ Locked) =>
            /\ e <= LockedSprintNumber => UNCHANGED sprintLock
            /\ (e > LockedSprintNumber /\ pc'[t] = "voting") => ~Locked'
     /\ \A t \in Threads, i \in MilestoneIDs, h \in BlockHashes :
          UnlockMutex(t, FALSE, i, h) => UNCHANGED sprintLock]_vars

\* A round that found the sprint locked is under way for the locked boundary
\* itself: LockMutex has returned true and the sprint lock is as it was.
C8_Witness ==
  \E t \in Threads :
    /\ pc[t] = "voting" /\ roundStart[t] # NoRound /\ roundStart[t][1]
    /\ SprintLock(Locked, LockedSprintNumber, LockedSprintHash, LockedMilestoneIDs) = roundStart[t]

\* C9: UnlockMutex(confirm, id, h) after LockMutex: with confirm it sets
\* Locked, sets LockedSprintHash to h and adds id to the identifier set;
\* without confirm it changes none of them; LockedSprintNumber is unchanged
\* and the exclusive lock is released either way.
C9_UnlockMutexEffect ==
  [][\A t \in Threads, doLock \in BOOLEAN, i \in MilestoneIDs, h \in BlockHashes :
       UnlockMutex(t, doLock, i, h) =>
         /\ doLock => /\ Locked' /\ LockedSprintHash' = h
                      /\ LockedMilestoneIDs' = LockedMilestoneIDs \cup {i}
         /\ ~doLock => UNCHANGED <<Locked, LockedSprintHash, LockedMilestoneIDs>>
         /\ LockedSprintNumber' = LockedSprintNumber
         /\ mu.w /\ ~mu'.w /\ pc'[t] = "idle"]_vars

\* UnlockMutex has confirmed: the sprint is locked with an identifier, the
\* mutex is free, and the store holds the record UnlockMutex wrote.
C9_Witness ==
  /\ Locked /\ LockedMilestoneIDs # {} /\ LockedSprintHash # ZeroHash
  /\ ~mu.w /\ \A t \in Threads : pc[t] = "idle"
  /\ db.LockField = MarshalLockField(TRUE, LockedSprintNumber, LockedSprintHash, LockedMilestoneIDs)

C11_Original ==
  [][\A t \in Threads, b \in Heights, h \in BlockHashes :
       Process(t, b, h) => ~(Locked' /\ LockedSprintNumber' <= b)]_vars

\* C11 amended: a Process(block, hash) that finds the finalized height
\* different from block leaves no sprint lock held at or below block; one
\* that finds the finalized height equal to block (0 on a guard that has no
\* record yet) changes neither the sprint lock nor the store, so a lock held
\* at or below block stays held.
C11_ProcessReleasesLocks ==
  [][\A t \in Threads, b \in Heights, h \in BlockHashes :
       Process(t, b, h) =>
         /\ Number # b => ~(Locked' /\ LockedSprintNumber' <= b)
         /\ Number = b => UNCHANGED <<sprintLock, finalized, db>>]_vars

\* Process has released a lock: the finalized record exists and is persisted,
\* and the store holds the cleared record of a confirmed boundary at or below
\* the finalized height.
C11_Witness ==
  /\ doExist /\ db.LastMilestone = MarshalFinality(Number, Hash)
  /\ ~Locked /\ LockedMilestoneIDs = {} /\ LockedSprintHash # ZeroHash
  /\ LockedSprintNumber <= Number
  /\ db.LockField = MarshalLockField(FALSE, LockedSprintNumber, LockedSprintHash, {})

\* C12 as stated: Process(h, x), for every height h (0 on a guard without a
\* record included), leaves the finalized record at (h, x), and a
\* Process(h, y) that follows it at once changes neither the record, the
\* sprint lock nor the store.
C12_Original ==
  [][\A t \in Threads, h \in Heights, x \in BlockHashes :
       Process(t, h, x) =>
         /\ (Number # h \/ ~doExist) => finalized' = <<TRUE, h, x>>
         /\ Number = h => UNCHANGED <<finalized, sprintLock, db>>]_vars

\* C12 amended: Process(h, x) on a guard whose height is not h sets the
\* finalized record to (h, x) and persists it; on a guard whose height is
\* already h (0 on a guard without a record included) it changes neither the
\* record, the sprint lock nor the store.  Either way the height is h
\* afterwards, so a Process(h, y) that follows at once is of the second kind.
C12_ProcessIdempotentByHeight ==
  [][\A t \in Threads, h \in Heights, x \in BlockHashes :
       Process(t, h, x) =>
         /\ Number' = h
         /\ Number # h => /\ finalized' = <<TRUE, h, x>>
                          /\ db'.LastMilestone = MarshalFinality(h, x)
         /\ Number = h => UNCHANGED <<finalized, sprintLock, db>>]_vars

\* A record has been applied above height 0 and persisted, and a goroutine
\* has called Process again and holds the mutex for it.
C12_Witness ==
  /\ doExist /\ Number > 0 /\ db.LastMilestone = MarshalFinality(Number, Hash)
  /\ \E t \in Threads : pc[t] = "held" /\ op[t] = "Process"

\* C13: UnlockSprint(e) with e < LockedSprintNumber changes neither Locked,
\* the identifier set nor the persisted lock field; with e >=
\* LockedSprintNumber it sets Locked to false, empties the identifier set and
\* persists that; LockedSprintNumber and LockedSprintHash are unchanged in
\* both cases.
C13_UnlockSprintEffect ==
  [][\A t \in Threads, e \in Heights :
       UnlockSprintCall(t, e) =>
         /\ e < LockedSprintNumber => UNCHANGED <<Locked, LockedMilestoneIDs, db>>
         /\ e >= LockedSprintNumber =>
              /\ ~Locked' /\ LockedMilestoneIDs' = {}
              /\ db'.LockField = MarshalLockField(FALSE, LockedSprintNumber, LockedSprintHash, {})
         /\ UNCHANGED <<LockedSprintNumber, LockedSprintHash>>]_vars

\* A voting round found the sprint locked at the boundary it votes on, and
\* during the round a direct UnlockSprint call has cleared the lock and
\* persisted the cleared record.
C13_Witness ==
  \E t \in Threads :
    /\ pc[t] = "voting" /\ roundStart[t] # NoRound
    /\ roundStart[t][1] /\ roundStart[t][2] = LockedSprintNumber
    /\ ~Locked /\ LockedMilestoneIDs = {}
    /\ db.LockField = MarshalLockField(FALSE, LockedSprintNumber, LockedSprintHash, {})

\* C14: after RemoveMilestoneID(id), id is not in the identifier set and
\* every other identifier is; Locked is false if the resulting set is empty
\* and has its previous value otherwise; LockedSprintNumber and
\* LockedSprintHash are unchanged; the exclusive lock, held during the call,
\* is free on return.
C14_RemoveMilestoneIDEffect ==
  [][\A t \in Threads, i \in MilestoneIDs :
       RemoveMilestoneID(t, i) =>
         /\ LockedMilestoneIDs' = LockedMilestoneIDs \ {i}
         /\ Locked' = (IF LockedMilestoneIDs' = {} THEN FALSE ELSE Locked)
         /\ UNCHANGED <<LockedSprintNumber, LockedSprintHash>>
         /\ mu.w /\ ~mu'.w /\ pc'[t] = "idle"]_vars

\* A goroutine has read two identifiers with GetMilestoneIDsList; since then
\* one of them was removed: the sprint is still locked with the other one,
\* the store holds that record and the mutex is free.
C14_Witness ==
  /\ Locked /\ Cardinality(LockedMilestoneIDs) = 1
  /\ db.LockField = MarshalLockField(TRUE, LockedSprintNumber, LockedSprintHash, LockedMilestoneIDs)
  /\ ~mu.w /\ mu.r = {}
  /\ \E t \in Threads : ret[t] = RetIds(MilestoneIDs)

\* the indices of the chain's blocks at height n
BlocksAt(chain, n) == { i \in 1..Len(chain) : chain[i].Number = n }
\* the least element of a non-empty set of indices
FirstOf(S) == CHOOSE i \in S : \A j \in S : i <= j

\* C15: IsReorgAllowed(chain, n, H) for a non-empty chain is false if the
\* chain's last block is at height <= n; otherwise, if the chain has a block
\* at height n, it is true exactly if the first such block has hash H;
\* otherwise it is true.
C15_IsReorgAllowed ==
  output.kind = "IsReorgAllowed" =>
    LET c == input.chain
        at == BlocksAt(c, input.n)
    IN  IF Last(c).Number <= input.n THEN ~output.b
        ELSE IF at # {} THEN output.b <=> (c[FirstOf(at)].Hash = input.h)
        ELSE output.b

\* IsReorgAllowed has returned true for a chain that ends above n and has two
\* blocks at height n with different hashes, of which the first has hash H.
C15_Witness ==
  /\ output.kind = "IsReorgAllowed" /\ output.b
  /\ \E i, j \in BlocksAt(input.chain, input.n) :
       i < j /\ input.chain[i].Hash = input.h /\ input.chain[j].Hash # input.h

\* the error ReadLockField returns for bytes that fail to decode
CorruptLockFieldErr == ReadLockField([db EXCEPT ![lockFieldKey] = Garbage]).err
\* the error ReadFinality returns for bytes that fail to decode
CorruptFinalityErr(T) == ReadFinality(T, [db EXCEPT ![getKey(T)] = Garbage]).err

\* C16 as stated: ReadLockField on a store whose lock-field key is absent or
\* holds an empty value fails with an error other than the one it returns
\* for bytes that fail to decode, the way ReadFinality does for its key.
C16_LockFieldNotFoundIsNotCorrupt ==
  /\ (output.kind = "ReadLockField" /\ db[lockFieldKey] \in {Absent, Empty})
       => (output.ret.err # ErrNil /\ output.ret.err # CorruptLockFieldErr)
  /\ (output.kind = "ReadFinality" /\ db[getKey(output.T)] \in {Absent, Empty})
       => (output.ret.err # ErrNil /\ output.ret.err # CorruptFinalityErr(output.T))

\* the errors that say that no record is there
NotFoundErrs == {dbNotFound, ErrEmptyLastFinality}

\* C17: for each variant T, ReadFinality[T] after writes of which the last
\* one under T's key was a successful WriteLastFinality[T](n, h) returns
\* (n, h) and no error, whatever was written before and whatever was written
\* for the other variant and the lock field; on a store where T's key was
\* never written it returns an error that says that no record is there.
C17_FinalityRoundTrip ==
  output.kind = "ReadFinality" =>
    LET w == written[output.T]
        r == output.ret
    IN  /\ w[1] = "finality" => r = [block |-> w[2], hash |-> w[3], err |-> ErrNil]
        /\ w = Never => r.err \in NotFoundErrs

\* ReadFinality[Checkpoint] has returned the checkpoint written last, while
\* the milestone written is another record and a lock field was written too.
C17_Witness ==
  /\ output.kind = "ReadFinality" /\ output.T = "Checkpoint" /\ output.ret.err = ErrNil
  /\ written["Checkpoint"] = <<"finality", output.ret.block, output.ret.hash>>
  /\ written["Milestone"][1] = "finality"
  /\ written["Milestone"] # written["Checkpoint"]
  /\ written["LockField"][1] = "lockfield"

\* goroutine t holds the mutex exclusively: it is inside Process, LockMutex or
\* RemoveMilestoneID, or LockMutex has returned to it
HoldsExclusive(t) ==
  /\ mu.w
  /\ \/ pc[t] = "held" /\ op[t] \in WriteOps
     \/ pc[t] \in {"voting", "rejected"}

\* C18 as stated, for the steps taken while some goroutine holds the mutex,
\* shared or exclusively: a step that changes Locked, LockedSprintNumber,
\* LockedSprintHash or the identifier set is a step of the goroutine that
\* holds the mutex exclusively; so a direct UnlockSprint call changes nothing
\* of them while another goroutine holds the mutex.
C18_MutationsUnderLock ==
  [][(sprintLock' # sprintLock /\ (mu.w \/ mu.r # {})) =>
       \E t \in Threads : HoldsExclusive(t) /\ pc'[t] # pc[t]]_vars

\* the sprint lock of a guard just constructed
InitialSprintLock == SprintLock(FALSE, 0, ZeroHash, {})

\* what ReadLockField finds in the store is the in-memory sprint lock
LockFieldInSync ==
  LET r == ReadLockField(db)
  IN  /\ r.err = ErrNil
      /\ SprintLock(r.val, r.block, r.hash, r.idList) = sprintLock

\* C19 as stated, for the states in which no direct UnlockSprint call is
\* between its assignments and its store write: with store writes that
\* succeed, whenever the mutex is not held exclusively and the sprint lock is
\* not the initial one, the persisted lock field equals the in-memory sprint
\* lock.
C19_LockFieldPersisted ==
  ( /\ ~mu.w
    /\ \A t \in Threads : pending[t] = NoPut
    /\ sprintLock # InitialSprintLock )
  => LockFieldInSync

\* the step has made a db.Put that failed
PutFailed == putBudget' < putBudget

\* C20: when the write of the lock field fails inside UnlockMutex,
\* RemoveMilestoneID or UnlockSprint, the call returns nothing, the
\* in-memory sprint lock is what the call makes of it when the write
\* succeeds, the store is as it was, and UnlockMutex and RemoveMilestoneID
\* return with the mutex released.
C20_WriteFailureSwallowed ==
  [][PutFailed =>
       /\ \A t \in Threads, doLock \in BOOLEAN, i \in MilestoneIDs, h \in BlockHashes :
            UnlockMutex(t, doLock, i, h) =>
              /\ db' = db
              /\ Locked' = (Locked \/ doLock)
              /\ LockedSprintHash' = (IF doLock THEN h ELSE LockedSprintHash)
              /\ LockedMilestoneIDs' = (IF doLock THEN LockedMilestoneIDs \cup {i} ELSE LockedMilestoneIDs)
              /\ LockedSprintNumber' = LockedSprintNumber
              /\ ret'[t] = NoRet /\ pc'[t] = "idle" /\ mu.w /\ ~mu'.w
       /\ \A t \in Threads, i \in MilestoneIDs :
            RemoveMilestoneID(t, i) =>
              /\ db' = db
              /\ LockedMilestoneIDs' = LockedMilestoneIDs \ {i}
              /\ Locked' = (IF LockedMilestoneIDs' = {} THEN FALSE ELSE Locked)
              /\ UNCHANGED <<LockedSprintNumber, LockedSprintHash>>
              /\ ret'[t] = NoRet /\ pc'[t] = "idle" /\ mu.w /\ ~mu'.w
       /\ \A t \in Threads, e \in Heights :
            UnlockSprintCall(t, e) =>
              /\ db' = db
              /\ ~Locked' /\ LockedMilestoneIDs' = {}
              /\ UNCHANGED <<LockedSprintNumber, LockedSprintHash, mu, pc, ret>>]_vars

\* The write of a confirming UnlockMutex has failed: the sprint is locked
\* with an identifier in memory, nothing was ever stored under the lock-field
\* key, and the mutex is free.
C20_Witness ==
  /\ putBudget < MaxPutFailures
  /\ Locked /\ LockedMilestoneIDs # {}
  /\ db[lockFieldKey] = Absent
  /\ ~mu.w /\ \A t \in Threads : pc[t] = "idle"

\* C21: in every reachable state where the exclusive lock is free, if a
\* finalized record exists and Locked is true then LockedSprintNumber is
\* strictly greater than the finalized height.  (The exclusive lock is free
\* only when every LockMutex call has been followed by its UnlockMutex,
\* whatever LockMutex returned.)
C21_LockedAboveFinalized ==
  (~mu.w /\ doExist /\ Locked) => LockedSprintNumber > Number

\* the step is UnlockMutex(true, id, h), for some h, of a round whose
\* LockMutex returned true
ConfirmedBy(id) ==
  \E t \in Threads, h \in BlockHashes :
    pc[t] = "voting" /\ ret[t] = RetBool(TRUE) /\ UnlockMutex(t, TRUE, id, h)

\* C22: whenever Locked is true, every identifier of the identifier set was
\* added by a confirming round (LockMutex(e) returning true, then
\* UnlockMutex(true, id, h)) with e = LockedSprintNumber and
\* h = LockedSprintHash.  Step by step: an identifier of a locked sprint is
\* either put in by the UnlockMutex(true, id, h) of such a round in this step
\* (which leaves e and h as the boundary), or it was pending before and the
\* step leaves the locked number and the locked hash as they were.
C22_IDsAgreeWithBoundary ==
  [][Locked' =>
       \A id \in LockedMilestoneIDs' :
         \/ ConfirmedBy(id)
         \/ /\ id \in LockedMilestoneIDs
            /\ LockedSprintNumber' = LockedSprintNumber
            /\ LockedSprintHash' = LockedSprintHash]_vars

====
